---- MODULE Spec2Model ----
(***************************************************************************)
(* Failure detection and failover of the SDN/BGP emulation.                *)
(*                                                                         *)
(* Three programs of the repository are modelled, each with its own        *)
(* specifications over its own groups of variables:                        *)
(*   Spec        src/sdn_controller.py   OrionController (Ryu application) *)
(*   SpecPolicy  src/sdn_controller.py   _recompute_routes as a function   *)
(*                                       of its inputs                     *)
(*   SpecMon     src/bgp_sdn_exper.py    HealthAwareSwitch + CustomCLI     *)
(*   SpecBGP     src/bgp_experiment.py   SDNBGPExperiment as shipped       *)
(*   SpecBGPAny  src/bgp_experiment.py   the same code, with the global    *)
(*                                       name json bound or unbound        *)
(*   SpecBGPLive src/bgp_experiment.py   as shipped, with the restart that *)
(*                                       never returns, under fairness     *)
(*   SpecCapture src/bgp_experiment.py   the try block of snapshot_routes  *)
(*                                       as a function of its input        *)
(*   SpecShell   src/bgp_sdn_exper.py    CombinedExperiment.start and the  *)
(*                                       shell it launches                 *)
(*   SpecStop    src/bgp_sdn_exper.py    start, stop and the monitor       *)
(*                                       threads, which the interpreter    *)
(*                                       keeps scheduling                  *)
(***************************************************************************)
EXTENDS Integers, Sequences, FiniteSets, TLC

VARIABLES
    \* ---- src/sdn_controller.py : OrionController
    spines,            \* the configured spine list (line 31)
    threshold,         \* capacity_degradation_threshold as <<num, den>>
    alive_spines,      \* self.alive_spines
    ofp_state,         \* per dpid, the state of its last EventOFPStateChange
    regime,            \* regime logged by the last _recompute_routes
    calls,             \* methods called by the last handler run, in order
    installed_via,     \* <<arg>> of the last _install_unicast_via, <<>> if none
    flow_table,        \* per dpid, the flows the controller has sent to it
    evals,             \* number of direct invocations of _recompute_routes
    \* ---- src/bgp_sdn_exper.py : HealthAwareSwitch, CustomCLI
    health_state,      \* per switch, self.health_state
    mon_pc,            \* per switch, where its _monitor_ctrl thread stands
    last_probe,        \* per switch, the outcome of its previous ping
    controller_set,    \* per switch, whether OVS has a controller target
    bgpd_up,           \* per router, whether a bgpd process runs for it
    status_out,        \* what the last status command printed, <<>> if none
    probe_ctl,         \* per switch, whether OVS had a controller target for it
                       \* when its ping in flight was issued (TRUE if none is)
    recover_log,       \* <<>>, or <<the routers the last recoverbgp was asked
                       \* for and the routers whose daemons it restarted>>
    fail_log,          \* <<>>, or <<the routers the last failbgp named>>
    health_log,        \* per switch, <<>> or <<the last transition its monitor
                       \* reported with info('... health: old -> new')>>
    \* ---- src/bgp_experiment.py : SDNBGPExperiment, BGPRouter
    json_bound,        \* whether the global name json resolves in the module
    last_dynamic_routes, \* per router <<>> (no key) or <<list of records>>
    ldr_before,        \* what last_dynamic_routes held, when the running
                       \* snapshot_routes began, for the routers it has yet to query
    snap_err,          \* routers the running/last snapshot_routes reported failed
    kroutes,           \* per router, its kernel routing table
    frr_up,            \* per router, whether its zebra and bgpd run
    cli_pc,            \* the method the experiment is executing, and where
    had_routes,        \* whether the router under recovery had routes when
                       \* its recovery began
    \* ---- src/bgp_experiment.py : the try block of snapshot_routes, on its own
    rib_in,            \* the output of 'show ip bgp json' under evaluation
    captured,          \* <<>> before the evaluation, then <<"error">> or
                       \* <<"ok", the list stored for the router>>
    \* ---- src/bgp_sdn_exper.py : CombinedExperiment.start and its command shell
    shell,             \* class of the shell start has launched, "none" before
    dispatch           \* <<command, method that received it>> of the last
                       \* command line entered, <<>> if none

ctrl_vars == <<spines, threshold, alive_spines, ofp_state, regime, calls,
               installed_via, flow_table, evals>>

mon_vars == <<health_state, mon_pc, last_probe, controller_set, bgpd_up,
              status_out, recover_log, probe_ctl, health_log, fail_log>>

bgp_vars == <<json_bound, last_dynamic_routes, ldr_before, snap_err, kroutes,
              frr_up, cli_pc, had_routes>>

cap_vars == <<rib_in, captured>>

shell_vars == <<shell, dispatch>>

vars == <<ctrl_vars, mon_vars, bgp_vars, cap_vars, shell_vars>>

--------------------------------------------------------------------------
(* Bounds *)

MaxDpid == 3

MaxDen == 4

MaxEvals == 2

MaxPaths == 2

--------------------------------------------------------------------------
(* src/sdn_controller.py *)

Spines == {"sp1", "sp2"}

Dpids == 1..MaxDpid

OfpStates == {"MAIN_DISPATCHER", "DEAD_DISPATCHER"}

\* capacity_degradation_threshold = 0.5
ThresholdNum == 1

ThresholdDen == 2

\* A faulty variant of sp_name: every spine datapath is taken for sp1.
sp_name_first(dpid) == "sp1"

\* sp_name = f"sp{dpid}" for dpid in (1,2)
sp_name(dpid) == IF dpid = 1 THEN "sp1" ELSE "sp2"

\* A faulty variant of total: the size of the configured domain instead of the literal.
total_of_domain(members) == Cardinality(members)

\* total = 2, whatever the configured spine list is
total(members) == 2

\* A faulty variant of Regime: the boundary ratio == threshold resolves to Fail-Closed.
RegimeInclusive(alive, th) ==
    LET t == total(spines)
        failed == t - Cardinality(alive)
    IN  IF t = 0 THEN "ZeroDivisionError"
        ELSE IF failed * th[2] <= th[1] * t THEN "FailClosed" ELSE "FailStatic"

\* failed = total - len(alive); ratio = failed / total;
\* ratio < threshold -> Fail-Closed, else Fail-Static.
\* failed/total < num/den is compared as failed*den < num*total (total, den > 0);
\* the division raises ZeroDivisionError when total is 0.
Regime(alive, th) ==
    LET t == total(spines)
        failed == t - Cardinality(alive)
    IN  IF t = 0 THEN "ZeroDivisionError"
        ELSE IF failed * th[2] < th[1] * t THEN "FailClosed" ELSE "FailStatic"

\* A faulty variant of recompute_routes: the regime is derived from the alive
\* set as it was before the event, not from the updated one.
recompute_routes_stale(alive) ==
    /\ regime' = Regime(alive_spines, threshold)
    /\ IF Regime(alive_spines, threshold) = "FailClosed"
       THEN /\ calls' = <<"_recompute_routes", "_install_unicast_via">>
            /\ installed_via' = <<alive_spines>>
       ELSE /\ calls' = <<"_recompute_routes">>
            /\ UNCHANGED installed_via

\* The body of _recompute_routes run on the alive set `alive`: it logs the
\* regime and, under Fail-Closed only, calls _install_unicast_via(alive_spines).
\* _install_unicast_via only logs; neither method assigns any attribute.
recompute_routes(alive) ==
    /\ regime' = Regime(alive, threshold)
    /\ IF Regime(alive, threshold) = "FailClosed"
       THEN /\ calls' = <<"_recompute_routes", "_install_unicast_via">>
            /\ installed_via' = <<alive>>
       ELSE /\ calls' = <<"_recompute_routes">>
            /\ UNCHANGED installed_via

\* A faulty variant of state_change_handler: every event of a spine datapath
\* recomputes, whether or not it changes the spine's membership.
state_change_handler_always(dpid, st) ==
    /\ ofp_state' = [ofp_state EXCEPT ![dpid] = st]
    /\ IF dpid \in {1, 2}
       THEN IF st = "MAIN_DISPATCHER"
            THEN /\ alive_spines' = alive_spines \cup {sp_name(dpid)}
                 /\ recompute_routes(alive_spines \cup {sp_name(dpid)})
            ELSE /\ alive_spines' = alive_spines \ {sp_name(dpid)}
                 /\ recompute_routes(alive_spines \ {sp_name(dpid)})
       ELSE /\ calls' = <<>>
            /\ UNCHANGED <<alive_spines, regime, installed_via>>
    /\ UNCHANGED <<spines, threshold, flow_table, evals>>
    /\ UNCHANGED <<mon_vars, bgp_vars, cap_vars, shell_vars>>

\* _state_change_handler(ev) with ev.datapath.id = dpid, ev.state = st
state_change_handler(dpid, st) ==
    /\ ofp_state' = [ofp_state EXCEPT ![dpid] = st]
    /\ IF dpid \in {1, 2}
       THEN IF st = "MAIN_DISPATCHER"
            THEN IF sp_name(dpid) \notin alive_spines
                 THEN /\ alive_spines' = alive_spines \cup {sp_name(dpid)}
                      /\ recompute_routes(alive_spines \cup {sp_name(dpid)})
                 ELSE /\ calls' = <<>>
                      /\ UNCHANGED <<alive_spines, regime, installed_via>>
            ELSE IF sp_name(dpid) \in alive_spines
                 THEN /\ alive_spines' = alive_spines \ {sp_name(dpid)}
                      /\ recompute_routes(alive_spines \ {sp_name(dpid)})
                 ELSE /\ calls' = <<>>
                      /\ UNCHANGED <<alive_spines, regime, installed_via>>
       ELSE /\ calls' = <<>>
            /\ UNCHANGED <<alive_spines, regime, installed_via>>
    /\ UNCHANGED <<spines, threshold, flow_table, evals>>
    /\ UNCHANGED <<mon_vars, bgp_vars, cap_vars, shell_vars>>

StateChange == \E dpid \in Dpids, st \in OfpStates : state_change_handler(dpid, st)

\* switch_features_handler: delete every flow, then add the priority-0 flood
switch_features_handler(dpid) ==
    /\ flow_table' = [flow_table EXCEPT ![dpid] = {"flood"}]
    /\ UNCHANGED <<spines, threshold, alive_spines, ofp_state, regime, calls,
                   installed_via, evals>>
    /\ UNCHANGED <<mon_vars, bgp_vars, cap_vars, shell_vars>>

SwitchFeatures == \E dpid \in Dpids : switch_features_handler(dpid)

\* A faulty variant of Evaluate: the evaluation drops the spines it routes around.
EvaluateMutating ==
    /\ evals < MaxEvals
    /\ evals' = evals + 1
    /\ recompute_routes(alive_spines)
    /\ alive_spines' = IF Regime(alive_spines, threshold) = "FailStatic"
                       THEN {} ELSE alive_spines
    /\ UNCHANGED <<spines, threshold, ofp_state, flow_table>>
    /\ UNCHANGED <<mon_vars, bgp_vars, cap_vars, shell_vars>>

\* _recompute_routes invoked on its own, on the controller's current state
Evaluate ==
    /\ evals < MaxEvals
    /\ evals' = evals + 1
    /\ recompute_routes(alive_spines)
    /\ UNCHANGED <<spines, threshold, alive_spines, ofp_state, flow_table>>
    /\ UNCHANGED <<mon_vars, bgp_vars, cap_vars, shell_vars>>

\* OrionController.__init__
InitCtrl ==
    /\ spines = Spines
    /\ threshold = <<ThresholdNum, ThresholdDen>>
    /\ alive_spines = Spines
    /\ ofp_state = [d \in Dpids |-> "none"]
    /\ regime = "none"
    /\ calls = <<>>
    /\ installed_via = <<>>
    /\ flow_table = [d \in Dpids |-> {}]
    /\ evals = 0

\* Inputs of _recompute_routes drawn from bounded sets: a configured domain,
\* the members of it that are alive, and a threshold num/den in (0, 1].
InitPolicy ==
    /\ spines \in SUBSET Spines
    /\ alive_spines \in SUBSET spines
    /\ threshold \in {<<n, d>> : n \in 1..MaxDen, d \in 1..MaxDen}
    /\ threshold[1] <= threshold[2]
    /\ ofp_state = [d \in Dpids |-> "none"]
    /\ regime = "none"
    /\ calls = <<>>
    /\ installed_via = <<>>
    /\ flow_table = [d \in Dpids |-> {}]
    /\ evals = 0

--------------------------------------------------------------------------
(* src/bgp_sdn_exper.py *)

\* Two of the four switches of CombinedTopo; switches do not interact.
Switches == {"sp1", "leaf1"}

\* The routers of CombinedTopo
MonRouters == {"bgp1", "bgp2"}

\* HealthAwareSwitch.start: the switch is started and its monitor thread
\* launched; the thread's first statement is a ping.
monitor_start(s) ==
    /\ mon_pc[s] = "unstarted"
    /\ mon_pc' = [mon_pc EXCEPT ![s] = "ready"]
    /\ UNCHANGED <<health_state, last_probe, controller_set, bgpd_up, status_out, recover_log, probe_ctl, health_log, fail_log>>
    /\ UNCHANGED <<ctrl_vars, bgp_vars, cap_vars, shell_vars>>

MonitorStart == \E s \in Switches : monitor_start(s)

\* _monitor_ctrl: res = self.cmd('ping -c1 -W1 <controller ip>') is issued
monitor_ping(s) ==
    /\ mon_pc[s] = "ready"
    /\ mon_pc' = [mon_pc EXCEPT ![s] = "pinging"]
    /\ probe_ctl' = [probe_ctl EXCEPT ![s] = controller_set[s]]
    /\ UNCHANGED <<health_state, last_probe, controller_set, bgpd_up, status_out, recover_log, health_log, fail_log>>
    /\ UNCHANGED <<ctrl_vars, bgp_vars, cap_vars, shell_vars>>

MonitorPing == \E s \in Switches : monitor_ping(s)

\* state = 'healthy' if '1 received' in res else 'unknown'
probe_state(s, received) == IF received THEN "healthy" ELSE "unknown"

\* A faulty variant of reports: every probe is reported.
reports_always(old, state) == TRUE

\* if state != self.health_state: (line 85), the test that guards the report
reports(old, state) == state # old

\* _monitor_ctrl: the ping returns; if state != self.health_state the
\* transition is logged and health_state assigned; then time.sleep(2).
\* A timeout (-W1) and a failure both give a result without '1 received'.
monitor_observe(s, received) ==
    /\ mon_pc[s] = "pinging"
    /\ mon_pc' = [mon_pc EXCEPT ![s] = "ready"]
    /\ IF reports(health_state[s], probe_state(s, received))
       THEN /\ health_log' = [health_log EXCEPT ![s] =
                    <<[from |-> health_state[s], to |-> probe_state(s, received)]>>]
            /\ health_state' = [health_state EXCEPT ![s] = probe_state(s, received)]
       ELSE UNCHANGED <<health_log, health_state>>
    /\ last_probe' = [last_probe EXCEPT ![s] = IF received THEN "ok" ELSE "fail"]
    /\ probe_ctl' = [probe_ctl EXCEPT ![s] = TRUE]
    /\ UNCHANGED <<controller_set, bgpd_up, status_out, recover_log, fail_log>>
    /\ UNCHANGED <<ctrl_vars, bgp_vars, cap_vars, shell_vars>>

MonitorObserve == \E s \in Switches, received \in BOOLEAN : monitor_observe(s, received)

\* do_failbgp: for r in line.split(): self.mn.get(r).cmd('pkill bgpd').
\* pkill matches by process name among the processes the node's shell sees;
\* Mininet nodes have their own network namespace but share the process
\* table, so one pkill bgpd ends the bgpd of every router.
do_failbgp(rs) ==
    /\ bgpd_up' = IF rs = {} THEN bgpd_up ELSE [r \in MonRouters |-> FALSE]
    /\ fail_log' = IF rs = {} THEN fail_log ELSE <<rs>>
    /\ UNCHANGED <<health_state, mon_pc, last_probe, controller_set, status_out, recover_log, probe_ctl, health_log>>
    /\ UNCHANGED <<ctrl_vars, bgp_vars, cap_vars, shell_vars>>

DoFailBgp == \E rs \in SUBSET MonRouters : do_failbgp(rs)

\* The switches of self.mn.switches, in the order CombinedTopo adds them
SwitchSeq == <<"sp1", "leaf1">>

\* Whether the shell of switch s is busy with its monitor's ping. Node.cmd is
\* called on the same node object by the monitor thread (self.cmd, line 83)
\* and by the thread of the command shell (lines 184, 193), and the source
\* holds no lock around either call.
in_flight(s) == mon_pc[s] = "pinging"

\* The switches on which a loop 'for sw in <named>: sw.cmd(...)' has run its
\* command when it ends. A call that finds the shell busy with the monitor's
\* ping is a race on that shell: it may run on top of the ping, or raise and
\* end the loop before the switches that follow. The order of the named
\* switches is that of the words of the line.
cmd_outcomes(named) ==
    {done \in SUBSET named : done = named \/ \E s \in named \ done : in_flight(s)}

\* The same for the loop over self.mn.switches, whose order is fixed: all the
\* switches, or those before one whose shell was busy.
cmd_outcomes_in_order ==
    {Switches} \cup
    {{SwitchSeq[j] : j \in 1..(k - 1)} : k \in {i \in 1..Len(SwitchSeq) : in_flight(SwitchSeq[i])}}

\* A faulty variant of do_failsdn: the command also marks the switches it names.
do_failsdn_marks(sws, done) ==
    /\ done \in cmd_outcomes(sws)
    /\ controller_set' = [s \in Switches |-> IF s \in done THEN FALSE ELSE controller_set[s]]
    /\ health_state' = [s \in Switches |-> IF s \in done THEN "unknown" ELSE health_state[s]]
    /\ UNCHANGED <<mon_pc, last_probe, bgpd_up, status_out, recover_log, probe_ctl, health_log, fail_log>>
    /\ UNCHANGED <<ctrl_vars, bgp_vars, cap_vars, shell_vars>>

\* do_failsdn: for sw in line.split(): ovs-vsctl del-controller sw
do_failsdn(sws, done) ==
    /\ done \in cmd_outcomes(sws)
    /\ controller_set' = [s \in Switches |-> IF s \in done THEN FALSE ELSE controller_set[s]]
    /\ UNCHANGED <<health_state, mon_pc, last_probe, bgpd_up, status_out, recover_log, probe_ctl, health_log, fail_log>>
    /\ UNCHANGED <<ctrl_vars, bgp_vars, cap_vars, shell_vars>>

DoFailSdn == \E sws \in SUBSET Switches, done \in SUBSET Switches : do_failsdn(sws, done)

\* do_failboth: do_failbgp(parts[0]); do_failsdn(parts[1:])
do_failboth(r, sws, done) ==
    /\ done \in cmd_outcomes(sws)
    /\ bgpd_up' = [x \in MonRouters |-> FALSE]
    /\ fail_log' = <<{r}>>
    /\ controller_set' = [s \in Switches |-> IF s \in done THEN FALSE ELSE controller_set[s]]
    /\ UNCHANGED <<health_state, mon_pc, last_probe, status_out, recover_log, probe_ctl, health_log>>
    /\ UNCHANGED <<ctrl_vars, bgp_vars, cap_vars, shell_vars>>

DoFailBoth ==
    \E r \in MonRouters, sws \in SUBSET Switches, done \in SUBSET Switches : do_failboth(r, sws, done)

\* do_recoverbgp(self, line): for r in ('bgp1','bgp2'): setup_frr; each kills
\* the router's daemons and starts zebra and bgpd anew, which the environment
\* lets succeed or fail. The words of line, the routers asked for, are not read.
do_recoverbgp(line, started) ==
    /\ bgpd_up' = [r \in MonRouters |-> r \in started]
    /\ recover_log' = <<[asked |-> line, restarted |-> {"bgp1", "bgp2"}]>>
    /\ UNCHANGED <<health_state, mon_pc, last_probe, controller_set, status_out,
                   probe_ctl, health_log, fail_log>>
    /\ UNCHANGED <<ctrl_vars, bgp_vars, cap_vars, shell_vars>>

DoRecoverBgp ==
    \E line \in SUBSET MonRouters, started \in SUBSET MonRouters : do_recoverbgp(line, started)

\* do_recoversdn: for sw in self.mn.switches: ovs-vsctl set-controller sw tcp:127.0.0.1:6653
do_recoversdn(done) ==
    /\ done \in cmd_outcomes_in_order
    /\ controller_set' = [s \in Switches |-> s \in done \/ controller_set[s]]
    /\ UNCHANGED <<health_state, mon_pc, last_probe, bgpd_up, status_out, recover_log, probe_ctl, health_log, fail_log>>
    /\ UNCHANGED <<ctrl_vars, bgp_vars, cap_vars, shell_vars>>

DoRecoverSdn == \E done \in SUBSET Switches : do_recoversdn(done)

\* What do_status prints: the heading 'Switch health:' and a line with the
\* health_state of every switch, then the heading 'BGP neighbors:' and nothing
\* under it (the output of 'show ip bgp summary' is computed and dropped).
status_report(health) ==
    [switch_health |-> health, bgp_neighbors |-> <<>>]

\* do_status
do_status ==
    /\ status_out' = <<status_report(health_state)>>
    /\ UNCHANGED <<health_state, mon_pc, last_probe, controller_set, bgpd_up,
                   recover_log, probe_ctl, health_log, fail_log>>
    /\ UNCHANGED <<ctrl_vars, bgp_vars, cap_vars, shell_vars>>

\* HealthAwareSwitch.__init__, Mininet(...) with the remote controller, and
\* configure_bgp having started the daemons
InitMon ==
    /\ health_state = [s \in Switches |-> "healthy"]
    /\ mon_pc = [s \in Switches |-> "unstarted"]
    /\ last_probe = [s \in Switches |-> "none"]
    /\ controller_set = [s \in Switches |-> TRUE]
    /\ bgpd_up = [r \in MonRouters |-> TRUE]
    /\ status_out = <<>>
    /\ recover_log = <<>>
    /\ probe_ctl = [s \in Switches |-> TRUE]
    /\ health_log = [s \in Switches |-> <<>>]
    /\ fail_log = <<>>

\* The commands the module docstring documents for the combined> prompt
Documented == {"failbgp", "failsdn", "failboth", "recoverbgp", "recoversdn", "status"}

\* The do_ methods class CustomCLI defines
CustomCLICommands == {"failbgp", "failsdn", "failboth", "recoverbgp", "recoversdn", "status"}

\* Some of the do_ methods of mininet.cli.CLI, which CustomCLI inherits
MininetCommands == {"nodes", "net", "dump"}

\* The command words entered at the prompt
CommandWords == Documented \cup {"nodes"}

\* The class CombinedExperiment.start instantiates: CLI(self.net, script=self)
start_shell_class == "CLI"

\* The do_ methods an instance of the class has
commands_of(cls) ==
    IF cls = "CustomCLI" THEN CustomCLICommands \cup MininetCommands
    ELSE IF cls = "CLI" THEN MininetCommands
    ELSE {}

\* Cmd.onecmd: getattr(self, 'do_' + cmd) if the instance has it, else default
handler_of(cls, c) == IF c \in commands_of(cls) THEN <<cls, "do_", c>> ELSE <<cls, "default">>

\* CombinedExperiment.start: setup_topology has started every switch (and its
\* monitor thread), configure_bgp has run, and the shell is constructed. The
\* constructor is handed script=self, an object that is no file name: whether
\* it returns a shell reading the prompt or raises is the library's.
start(reads) ==
    /\ shell = "none"
    /\ \A s \in Switches : mon_pc[s] # "unstarted"
    /\ shell' = IF reads THEN start_shell_class ELSE "raised"
    /\ UNCHANGED dispatch
    /\ UNCHANGED <<ctrl_vars, mon_vars, bgp_vars, cap_vars>>

Start == \E reads \in BOOLEAN : start(reads)

\* One command line entered at the prompt of the shell start launched, for the
\* lines that reach default or a method of mininet.cli.CLI: these print and
\* change nothing else. (Lines that reach a method of CustomCLI run that
\* method: do_failbgp ... do_status above.)
onecmd(c) ==
    /\ shell \in {"CLI", "CustomCLI"}
    /\ ~(c \in CustomCLICommands /\ c \in commands_of(shell))
    /\ dispatch' = <<c, handler_of(shell, c)>>
    /\ UNCHANGED shell
    /\ UNCHANGED <<ctrl_vars, mon_vars, bgp_vars, cap_vars>>

Onecmd == \E c \in CommandWords : onecmd(c)

\* CombinedExperiment.stop, which __main__ calls in its finally clause once
\* start has returned or raised: killall -9 zebra bgpd on both routers, then
\* net.stop(), which stops the nodes and deletes the switches' bridges.
\* Nothing in it addresses the monitor threads: they hold no stop flag.
stop ==
    /\ shell \in {"CLI", "raised"}
    /\ shell' = "stopped"
    /\ bgpd_up' = [r \in MonRouters |-> FALSE]
    /\ controller_set' = [s \in Switches |-> FALSE]
    /\ UNCHANGED <<health_state, mon_pc, last_probe, status_out, recover_log,
                   probe_ctl, health_log, dispatch, fail_log>>
    /\ UNCHANGED <<ctrl_vars, bgp_vars, cap_vars>>

\* _monitor_ctrl is 'while True:' with no exit of its own. After stop its
\* thread ends only from outside the loop: self.cmd may raise on the stopped
\* node, or the process ends and takes its daemon threads (daemon=True) along.
\* Neither is bound to happen while the object lives.
monitor_ends(s) ==
    /\ shell = "stopped"
    /\ mon_pc[s] = "ready"
    /\ mon_pc' = [mon_pc EXCEPT ![s] = "dead"]
    /\ UNCHANGED <<health_state, last_probe, controller_set, bgpd_up, status_out,
                   recover_log, probe_ctl, health_log, fail_log>>
    /\ UNCHANGED <<ctrl_vars, bgp_vars, cap_vars, shell_vars>>

MonitorEnds == \E s \in Switches : monitor_ends(s)

InitShell == shell = "none" /\ dispatch = <<>>

--------------------------------------------------------------------------
(* src/bgp_experiment.py *)

\* Two of the three routers of peers_map, in its iteration order
RouterSeq == <<"bgp1", "bgp2">>

Routers == {RouterSeq[i] : i \in 1..Len(RouterSeq)}

\* Two of the prefixes the routers announce, in the order of the JSON object
PrefixSeq == <<"10.0.2.0/24", "10.0.3.0/24">>

Prefixes == {PrefixSeq[i] : i \in 1..Len(PrefixSeq)}

\* The distance the source takes BGP routes to have
BGPDistance == 200

\* 'ip route add ... proto zebra' names no metric: the kernel's default
DefaultMetric == 0

\* The i-th path of a prefix comes from the i-th peer
NextHopOf(i) == IF i = 1 THEN "10.0.12.2" ELSE IF i = 2 THEN "10.0.23.2" ELSE "10.0.12.1"

AsPathOf(i) == IF i = 1 THEN "65002" ELSE IF i = 2 THEN "65003" ELSE "65001"

\* What 'show ip bgp json' can return: text json.loads rejects (or without a
\* 'routes' key), or an object mapping some prefixes to their paths, each
\* path with its valid and best flags.
PathFlags == [valid : BOOLEAN, best : BOOLEAN]

PathLists == UNION {[1..n -> PathFlags] : n \in 0..MaxPaths}

RibTables == UNION {[D -> PathLists] : D \in SUBSET Prefixes}

RibOutputs == {[json |-> FALSE, routes |-> [p \in {} |-> <<>>]]}
                 \cup {[json |-> TRUE, routes |-> f] : f \in RibTables}

\* dict.get(router, [])
Get(ldr, r) == IF ldr[r] = <<>> THEN <<>> ELSE ldr[r][1]

\* ... if a[0]['valid'] and a[0]['best']
first_path_selected(a) == a[1].valid /\ a[1].best

\* {'prefix': p, 'nexthop': a[0]['nexthops'][0]['ip'], 'as_path': a[0]['path']}
snapshot_record(p) == [prefix |-> p, nexthop |-> NextHopOf(1), as_path |-> AsPathOf(1)]

\* The try block of snapshot_routes raises: json is no bound name (NameError),
\* json.loads or ['routes'] fails, or a[0] indexes an empty path list.
capture_raises(out) ==
    \/ ~json_bound
    \/ ~out.json
    \/ \E p \in DOMAIN out.routes : Len(out.routes[p]) = 0

\* The list the comprehension builds, in the order of routes.items()
capture_list(out) ==
    LET kept == SelectSeq(PrefixSeq, LAMBDA p :
                    p \in DOMAIN out.routes /\ first_path_selected(out.routes[p]))
    IN  [i \in 1..Len(kept) |-> snapshot_record(kept[i])]

Idle == [op |-> "idle", i |-> 0, step |-> "-"]

\* snapshot_routes, up to its loop: self.last_dynamic_routes = {}
snapshot_routes_begin ==
    /\ cli_pc = Idle
    /\ cli_pc' = [op |-> "snapshot_routes", i |-> 1, step |-> "-"]
    /\ ldr_before' = last_dynamic_routes
    /\ last_dynamic_routes' = [r \in Routers |-> <<>>]
    /\ snap_err' = {}
    /\ UNCHANGED <<json_bound, kroutes, frr_up, had_routes>>
    /\ UNCHANGED <<ctrl_vars, mon_vars, cap_vars, shell_vars>>

\* A faulty variant of snapshot_routes_router: the exception of one router's
\* capture is not caught inside the loop and ends the run.
snapshot_routes_router_abort(out) ==
    LET r == RouterSeq[cli_pc.i] IN
    /\ cli_pc.op = "snapshot_routes"
    /\ IF capture_raises(out)
       THEN /\ snap_err' = snap_err \cup {r}
            /\ UNCHANGED last_dynamic_routes
            /\ cli_pc' = Idle
       ELSE /\ last_dynamic_routes' =
                   [last_dynamic_routes EXCEPT ![r] = <<capture_list(out)>>]
            /\ UNCHANGED snap_err
            /\ cli_pc' = IF cli_pc.i < Len(RouterSeq)
                         THEN [cli_pc EXCEPT !.i = @ + 1] ELSE Idle
    /\ ldr_before' = [ldr_before EXCEPT ![r] = <<>>]
    /\ UNCHANGED <<json_bound, kroutes, frr_up, had_routes>>
    /\ UNCHANGED <<ctrl_vars, mon_vars, cap_vars, shell_vars>>

\* snapshot_routes, one iteration of its loop: the router's RIB is queried and
\* the snapshot stored, or the exception caught and an error reported.
snapshot_routes_router(out) ==
    LET r == RouterSeq[cli_pc.i] IN
    /\ cli_pc.op = "snapshot_routes"
    /\ IF capture_raises(out)
       THEN /\ snap_err' = snap_err \cup {r}
            /\ UNCHANGED last_dynamic_routes
       ELSE /\ last_dynamic_routes' =
                   [last_dynamic_routes EXCEPT ![r] = <<capture_list(out)>>]
            /\ UNCHANGED snap_err
    /\ cli_pc' = IF cli_pc.i < Len(RouterSeq) THEN [cli_pc EXCEPT !.i = @ + 1] ELSE Idle
    /\ ldr_before' = [ldr_before EXCEPT ![r] = <<>>]
    /\ UNCHANGED <<json_bound, kroutes, frr_up, had_routes>>
    /\ UNCHANGED <<ctrl_vars, mon_vars, cap_vars, shell_vars>>

SnapshotRoutesRouter == \E out \in RibOutputs : snapshot_routes_router(out)

\* A faulty variant of ip_route_flush: nothing is flushed.
ip_route_flush_nothing(table) == table

\* ip route flush proto zebra
ip_route_flush(table) == {x \in table : x.proto # "zebra"}

\* ip route add: the kernel refuses a route whose prefix and metric it has
ip_route_add(table, rt) ==
    IF \E x \in table : x.prefix = rt.prefix /\ x.metric = rt.metric
    THEN table
    ELSE table \cup {rt}

\* ip route add {prefix} via {nexthop} proto zebra
fallback_route(rec) ==
    [prefix |-> rec.prefix, via |-> rec.nexthop, proto |-> "zebra",
     metric |-> DefaultMetric, origin |-> "snapshot"]

RECURSIVE add_all(_, _)
add_all(table, recs) ==
    IF recs = <<>> THEN table
    ELSE add_all(ip_route_add(table, fallback_route(Head(recs))), Tail(recs))

\* A faulty variant of next_step: the daemon is restarted before the snapshot is installed.
next_step_restart_first(step) ==
    IF step = "flush" THEN "setup_frr"
    ELSE IF step = "setup_frr" THEN "add" ELSE "done"

\* The order of the statements of the loop body of recover_bgp_after_link_flap
next_step(step) ==
    IF step = "flush" THEN "add"
    ELSE IF step = "add" THEN "setup_frr" ELSE "done"

\* recover_bgp_after_link_flap (do_recoverbgp), up to its loop
recover_begin ==
    /\ cli_pc = Idle
    /\ cli_pc' = [op |-> "recover", i |-> 1, step |-> "flush"]
    /\ UNCHANGED <<json_bound, last_dynamic_routes, ldr_before, snap_err, kroutes,
                   frr_up, had_routes>>
    /\ UNCHANGED <<ctrl_vars, mon_vars, cap_vars, shell_vars>>

\* Where the loop goes after the statement `step` of router number i
after_step(i, step) ==
    IF next_step(step) # "done" THEN [op |-> "recover", i |-> i, step |-> next_step(step)]
    ELSE IF i < Len(RouterSeq) THEN [op |-> "recover", i |-> i + 1, step |-> "flush"]
    ELSE Idle

\* 1. r.cmd('ip route flush proto zebra')
recover_flush ==
    LET r == RouterSeq[cli_pc.i] IN
    /\ cli_pc.op = "recover" /\ cli_pc.step = "flush"
    /\ kroutes' = [kroutes EXCEPT ![r] = ip_route_flush(@)]
    /\ had_routes' = (kroutes[r] # {})
    /\ cli_pc' = after_step(cli_pc.i, "flush")
    /\ UNCHANGED <<json_bound, last_dynamic_routes, ldr_before, snap_err, frr_up>>
    /\ UNCHANGED <<ctrl_vars, mon_vars, cap_vars, shell_vars>>

\* A faulty variant of recover_add: the snapshot is taken out of the store
\* (pop) as it is installed.
recover_add_consumes ==
    LET r == RouterSeq[cli_pc.i]
        recs == Get(last_dynamic_routes, r)
    IN
    /\ cli_pc.op = "recover" /\ cli_pc.step = "add"
    /\ kroutes' = [kroutes EXCEPT ![r] = add_all(@, recs)]
    /\ last_dynamic_routes' = [last_dynamic_routes EXCEPT ![r] = <<>>]
    /\ cli_pc' = after_step(cli_pc.i, "add")
    /\ UNCHANGED <<json_bound, ldr_before, snap_err, frr_up, had_routes>>
    /\ UNCHANGED <<ctrl_vars, mon_vars, cap_vars, shell_vars>>

\* 2. for route in self.last_dynamic_routes.get(router, []): ip route add ...
recover_add ==
    LET r == RouterSeq[cli_pc.i]
        recs == Get(last_dynamic_routes, r)
    IN
    /\ cli_pc.op = "recover" /\ cli_pc.step = "add"
    /\ kroutes' = [kroutes EXCEPT ![r] = add_all(@, recs)]
    /\ cli_pc' = after_step(cli_pc.i, "add")
    /\ UNCHANGED <<json_bound, last_dynamic_routes, ldr_before, snap_err, frr_up,
                   had_routes>>
    /\ UNCHANGED <<ctrl_vars, mon_vars, cap_vars, shell_vars>>

\* 3. r.setup_frr(peers=...): the router's zebra and bgpd are killed and
\* started anew; whether they come up is the environment's.
recover_setup_frr(started) ==
    LET r == RouterSeq[cli_pc.i] IN
    /\ cli_pc.op = "recover" /\ cli_pc.step = "setup_frr"
    /\ frr_up' = [frr_up EXCEPT ![r] = started]
    /\ had_routes' = FALSE
    /\ cli_pc' = after_step(cli_pc.i, "setup_frr")
    /\ UNCHANGED <<json_bound, last_dynamic_routes, ldr_before, snap_err, kroutes>>
    /\ UNCHANGED <<ctrl_vars, mon_vars, cap_vars, shell_vars>>

RecoverSetupFrr == \E started \in BOOLEAN : recover_setup_frr(started)

\* 3. r.setup_frr(peers=...) does not return: each of its self.cmd calls
\* waits for the node's shell to finish the command, with no timeout, and
\* recover_bgp_after_link_flap calls it in the loop, on the CLI's own thread.
recover_setup_frr_hangs ==
    /\ cli_pc.op = "recover" /\ cli_pc.step = "setup_frr"
    /\ cli_pc' = [cli_pc EXCEPT !.step = "hung"]
    /\ UNCHANGED <<json_bound, last_dynamic_routes, ldr_before, snap_err, kroutes,
                   frr_up, had_routes>>
    /\ UNCHANGED <<ctrl_vars, mon_vars, cap_vars, shell_vars>>

\* BGPRouter._install_fail_static: the method body is the vtysh query alone;
\* the try block that parses and installs stands at class level, runs once
\* when the class is defined, and installs nothing.
install_fail_static(r) ==
    /\ cli_pc = Idle
    /\ UNCHANGED <<ctrl_vars, mon_vars, bgp_vars, cap_vars, shell_vars>>

InstallFailStatic == \E r \in Routers : install_fail_static(r)

\* The route zebra installs for a prefix bgpd has learned
dynamic_route(p) ==
    [prefix |-> p, via |-> NextHopOf(1), proto |-> "zebra",
     metric |-> BGPDistance, origin |-> "bgpd"]

\* Environment: a running bgpd has learned the prefixes and zebra installs them
bgpd_learns(r) ==
    /\ frr_up[r]
    /\ kroutes' = [kroutes EXCEPT ![r] = @ \cup {dynamic_route(p) : p \in Prefixes}]
    /\ UNCHANGED <<json_bound, last_dynamic_routes, ldr_before, snap_err, frr_up,
                   cli_pc, had_routes>>
    /\ UNCHANGED <<ctrl_vars, mon_vars, cap_vars, shell_vars>>

BgpdLearns == \E r \in Routers : bgpd_learns(r)

\* Environment: the daemons of a router die; the routes they installed stay
frr_dies(r) ==
    /\ frr_up[r]
    /\ frr_up' = [frr_up EXCEPT ![r] = FALSE]
    /\ UNCHANGED <<json_bound, last_dynamic_routes, ldr_before, snap_err, kroutes,
                   cli_pc, had_routes>>
    /\ UNCHANGED <<ctrl_vars, mon_vars, cap_vars, shell_vars>>

FrrDies == \E r \in Routers : frr_dies(r)

\* SDNBGPExperiment.__init__ and setup_topology; the file imports no json
InitBGPState ==
    /\ last_dynamic_routes = [r \in Routers |-> <<>>]
    /\ ldr_before = [r \in Routers |-> <<>>]
    /\ snap_err = {}
    /\ kroutes = [r \in Routers |-> {}]
    /\ frr_up = [r \in Routers |-> TRUE]
    /\ cli_pc = Idle
    /\ had_routes = FALSE

InitBGP == InitBGPState /\ json_bound = FALSE

\* The output of a query that was not made
NoOutput == [json |-> FALSE, routes |-> [p \in {} |-> <<>>]]

\* The try block of snapshot_routes applied to one router's output rib_in:
\* the list it stores for the router, or the error of its except branch.
capture ==
    /\ captured = <<>>
    /\ captured' = IF capture_raises(rib_in) THEN <<"error">>
                   ELSE <<"ok", capture_list(rib_in)>>
    /\ UNCHANGED rib_in
    /\ UNCHANGED <<ctrl_vars, mon_vars, bgp_vars, shell_vars>>

InitCap == rib_in = NoOutput /\ captured = <<>>

\* The inputs of the try block drawn from bounded sets: every output of
\* RibOutputs, with the name json bound or unbound.
InitCapture ==
    /\ InitBGPState
    /\ json_bound \in BOOLEAN
    /\ rib_in \in RibOutputs
    /\ captured = <<>>

--------------------------------------------------------------------------
(* Specifications *)

Init == InitCtrl /\ InitMon /\ InitBGP /\ InitCap /\ InitShell

Next == StateChange \/ SwitchFeatures

Spec == Init /\ [][Next]_vars

NextPolicy == Evaluate

InitEval == InitPolicy /\ InitMon /\ InitBGP /\ InitCap /\ InitShell

SpecPolicy == InitEval /\ [][NextPolicy]_vars

NextMon ==
    \/ MonitorStart
    \/ MonitorPing
    \/ MonitorObserve
    \/ DoFailBgp
    \/ DoFailSdn
    \/ DoFailBoth
    \/ DoRecoverBgp
    \/ DoRecoverSdn
    \/ do_status

SpecMon == Init /\ [][NextMon]_vars

NextBGP ==
    \/ snapshot_routes_begin
    \/ SnapshotRoutesRouter
    \/ recover_begin
    \/ recover_flush
    \/ recover_add
    \/ RecoverSetupFrr
    \/ InstallFailStatic
    \/ BgpdLearns
    \/ FrrDies

SpecBGP == Init /\ [][NextBGP]_vars

InitAny ==
    /\ InitCtrl /\ InitMon /\ InitBGPState /\ json_bound \in BOOLEAN
    /\ InitCap /\ InitShell

SpecBGPAny == InitAny /\ [][NextBGP]_vars

\* The experiment as shipped, with the outcome in which setup_frr never
\* returns. The thread that runs the command takes its next statement
\* whenever that statement can run (weak fairness on each one).
NextBGPLive == NextBGP \/ recover_setup_frr_hangs

CliStatement ==
    \/ SnapshotRoutesRouter
    \/ recover_flush
    \/ recover_add
    \/ RecoverSetupFrr
    \/ recover_setup_frr_hangs

SpecBGPLive == Init /\ [][NextBGPLive]_vars /\ WF_vars(CliStatement)

InitFn == InitCtrl /\ InitMon /\ InitCapture /\ InitShell

NextCapture == capture

SpecCapture == InitFn /\ [][NextCapture]_vars

NextShell ==
    \/ MonitorStart
    \/ MonitorPing
    \/ MonitorObserve
    \/ Start
    \/ Onecmd

SpecShell == Init /\ [][NextShell]_vars

NextStop ==
    \/ MonitorStart
    \/ MonitorPing
    \/ MonitorObserve
    \/ Start
    \/ Onecmd
    \/ stop
    \/ MonitorEnds

\* A started thread runs: the interpreter schedules every monitor's loop.
MonitorRuns(s) == monitor_ping(s) \/ \E received \in BOOLEAN : monitor_observe(s, received)

SpecStop ==
    /\ Init
    /\ [][NextStop]_vars
    /\ \A s \in Switches : WF_vars(MonitorRuns(s))

--------------------------------------------------------------------------
(* Claims about the degradation policy (src/sdn_controller.py) *)

C9_EmptyDomainIsStatic ==
    (spines = {} /\ evals > 0) => regime = "FailStatic"

C9_Witness_EmptyDomainEvaluated ==
    /\ spines = {}
    /\ evals > 0
    /\ threshold = <<1, 1>>
    /\ regime = "FailStatic"

\* C10: an invocation of _recompute_routes changes neither alive_spines nor
\* any other state of the controller, and while alive_spines is unchanged a
\* repeated invocation logs the regime the previous one logged.
C10_EvaluateIsPure ==
    [][evals' > evals =>
          /\ alive_spines' = alive_spines
          /\ spines' = spines
          /\ threshold' = threshold
          /\ flow_table' = flow_table
          /\ ofp_state' = ofp_state
          /\ (regime # "none" => regime' = regime)]_vars

C10_Witness_EvaluatedTwice ==
    /\ evals >= 2
    /\ regime = "FailStatic"
    /\ alive_spines # {}

--------------------------------------------------------------------------
(* Claims about health monitoring (src/bgp_sdn_exper.py) *)

\* C3 as stated: a monitored element leaves 'healthy' only at a probe that
\* completes a run of at least two consecutive failures, and returns to
\* 'healthy' only at a probe that completes a run of at least two consecutive
\* successes; a single contrary probe never changes the reported state.
C3_Original_Debounced ==
    [][\A s \in Switches :
          /\ (health_state[s] = "healthy" /\ health_state'[s] # "healthy")
                => last_probe[s] = "fail"
          /\ (health_state[s] # "healthy" /\ health_state'[s] = "healthy")
                => last_probe[s] = "ok"]_vars

--------------------------------------------------------------------------
(* Claims about snapshots and recovery (src/bgp_experiment.py) *)

\* The records of the snapshot stored for router r, as fallback routes
SnapshotRoutes(r) ==
    {fallback_route(Get(last_dynamic_routes, r)[k]) :
        k \in 1..Len(Get(last_dynamic_routes, r))}

\* The routes of a kernel table that recovery installed from a snapshot
FallbackRoutes(table) == {x \in table : x.origin = "snapshot"}

\* The statement of recovery's loop body that a step executes, "-" if none
RecoverStepTaken ==
    IF cli_pc.op = "recover" /\ cli_pc' # cli_pc THEN cli_pc.step ELSE "-"

C5_Original_NeverLeftWithoutRoutes ==
    [][(RecoverStepTaken = "setup_frr" /\ had_routes)
          => kroutes'[RouterSeq[cli_pc.i]] # {}]_vars

\* C6: for each router recovery first flushes, then installs every record of
\* the router's stored snapshot, then restarts the daemons: the add step finds
\* no fallback route left and leaves every record installed, and the restart
\* is issued only with every record of the snapshot installed.
C6_FlushThenInstallThenRestart ==
    [][IF RecoverStepTaken = "-" THEN TRUE
       ELSE LET r == RouterSeq[cli_pc.i] IN
            /\ RecoverStepTaken = "flush" => cli_pc'.step = "add"
            /\ RecoverStepTaken = "add" =>
                  /\ FallbackRoutes(kroutes[r]) = {}
                  /\ SnapshotRoutes(r) \subseteq kroutes'[r]
            /\ RecoverStepTaken = "setup_frr" =>
                  /\ SnapshotRoutes(r) \subseteq kroutes[r]
                  /\ kroutes'[r] = kroutes[r]]_vars

C6_Witness_RestartAfterInstall ==
    /\ cli_pc = [op |-> "recover", i |-> 2, step |-> "flush"]
    /\ SnapshotRoutes("bgp1") # {}
    /\ SnapshotRoutes("bgp1") \subseteq kroutes["bgp1"]
    /\ ~frr_up["bgp1"]

C8_RecoveryIdempotent ==
    [][RecoverStepTaken = "setup_frr" =>
          LET r == RouterSeq[cli_pc.i]
              fb == FallbackRoutes(kroutes'[r])
          IN  /\ fb = SnapshotRoutes(r)
              /\ \A x, y \in fb : x.prefix = y.prefix => x = y]_vars

\* A second recovery begins on a router whose fallback routes are those of
\* its stored snapshot: the first recovery installed them.
C8_Witness_RecoveryRepeated ==
    /\ cli_pc = [op |-> "recover", i |-> 1, step |-> "flush"]
    /\ Len(Get(last_dynamic_routes, "bgp1")) = 2
    /\ FallbackRoutes(kroutes["bgp1"]) = SnapshotRoutes("bgp1")

--------------------------------------------------------------------------
(* Claims about the capture of one router (src/bgp_experiment.py) *)

\* The prefixes of an output that have a path with valid and best both set,
\* at any place among the prefix's paths
PrefixesWithValidBest(out) ==
    {p \in DOMAIN out.routes :
        \E i \in 1..Len(out.routes[p]) : out.routes[p][i].valid /\ out.routes[p][i].best}

\* The prefixes of the records of a stored list
PrefixesOf(recs) == {recs[k].prefix : k \in 1..Len(recs)}

C12_CaptureIsolated ==
    [][(cli_pc.op = "snapshot_routes" /\ cli_pc' # cli_pc) =>
          LET r == RouterSeq[cli_pc.i] IN
          /\ \A q \in Routers \ {r} : last_dynamic_routes'[q] = last_dynamic_routes[q]
          /\ (r \in snap_err' /\ cli_pc.i < Len(RouterSeq)) =>
                 cli_pc' = [op |-> "snapshot_routes", i |-> cli_pc.i + 1, step |-> "-"]
          /\ cli_pc' = Idle =>
                 \A q \in Routers : q \in snap_err' \/ last_dynamic_routes'[q] # <<>>]_vars

\* The run has ended: bgp1's capture failed, bgp2's was committed after it.
C12_Witness_OneFailedOtherCommitted ==
    /\ cli_pc = Idle
    /\ snap_err = {"bgp1"}
    /\ last_dynamic_routes["bgp1"] = <<>>
    /\ Len(Get(last_dynamic_routes, "bgp2")) = 2

--------------------------------------------------------------------------
(* Claims about recovery requests (src/bgp_experiment.py, src/bgp_sdn_exper.py) *)

\* C13 as stated: when the recovery of bgp1 hangs in its daemon restart, the
\* recovery of bgp2 is still carried out; that it is ever begun is the least
\* of what that requires.
C13_Original_HangDoesNotBlockOthers ==
    (cli_pc.op = "recover" /\ cli_pc.i = 1 /\ cli_pc.step = "hung")
        ~> (cli_pc.op = "recover" /\ cli_pc.i = 2)

\* C14 as stated: a recoverbgp asked for some routers restarts the daemons of
\* those routers only, and leaves the daemon of every other router as it was.
C14_Original_OnlyRequestedRouters ==
    [][recover_log' # recover_log =>
          /\ recover_log'[1].restarted \subseteq recover_log'[1].asked
          /\ \A r \in MonRouters \ recover_log'[1].asked : bgpd_up'[r] = bgpd_up[r]]_vars

--------------------------------------------------------------------------
(* Claims about the command shell and the monitors (src/bgp_sdn_exper.py) *)

\* C15 as stated: after failsdn has removed a switch's controller, and while
\* it stays removed, an observation that completes a ping issued after the
\* removal is a failure and leaves the switch's health_state other than
\* 'healthy', whatever the ping itself would report.
C15_Original_InjectionForcesFailedProbe ==
    [][\A s \in Switches :
          (/\ mon_pc[s] = "pinging" /\ mon_pc'[s] = "ready"
           /\ ~probe_ctl[s] /\ ~controller_set[s])
              => (last_probe'[s] = "fail" /\ health_state'[s] # "healthy")]_vars

\* C16: every step that changes switch s's health_state is the step of s's
\* own monitor that completes its ping: it moves no other switch's monitor and
\* changes nothing that a command writes.
C16_SingleWriter ==
    [][\A s \in Switches :
          health_state'[s] # health_state[s] =>
              /\ mon_pc[s] = "pinging" /\ mon_pc'[s] = "ready"
              /\ \A t \in Switches \ {s} :
                    mon_pc'[t] = mon_pc[t] /\ health_state'[t] = health_state[t]
              /\ UNCHANGED <<controller_set, bgpd_up, status_out, recover_log>>]_vars

\* sp1's monitor has marked sp1; the commands have run on leaf1 and the
\* routers, and leaf1, whose monitor has observed nothing, is as constructed.
C16_Witness_CommandsRanMonitorWrote ==
    /\ health_state = [s \in Switches |-> IF s = "sp1" THEN "unknown" ELSE "healthy"]
    /\ last_probe["leaf1"] = "none"
    /\ ~controller_set["leaf1"]
    /\ ~bgpd_up["bgp1"]
    /\ recover_log # <<>>
    /\ status_out # <<>>

\* C17 as stated: every documented command entered at the prompt of the shell
\* that start launched is received by its own do_ method.
C17_Original_DocumentedCommandsDispatched ==
    (dispatch # <<>> /\ dispatch[1] \in Documented) =>
        dispatch[2] = <<shell, "do_", dispatch[1]>>

\* C18 as stated: a status command changes no health state, no alive set, no
\* snapshot and no installed route, and its report gives the current health
\* state of every switch, the latest failover decision and the freshness of
\* every router's snapshot.
C18_Original_StatusReadOnlyAndComplete ==
    [][status_out' # status_out =>
          /\ UNCHANGED <<health_state, alive_spines, last_dynamic_routes, kroutes>>
          /\ "switch_health" \in DOMAIN status_out'[1]
          /\ status_out'[1].switch_health = health_state
          /\ "failover_decision" \in DOMAIN status_out'[1]
          /\ "snapshot_freshness" \in DOMAIN status_out'[1]]_vars

--------------------------------------------------------------------------
(* Claims about recomputation and flow installation (src/sdn_controller.py) *)

\* C19 as stated: a recomputation that resolves to Fail-Static calls no
\* _install_unicast_via and changes no flow, and while the regime stays
\* Fail-Static the controller sends no flow to any switch.
C19_Original_NoInstallWhileFailStatic ==
    [][/\ (alive_spines' # alive_spines /\ regime' = "FailStatic") =>
             /\ calls' = <<"_recompute_routes">>
             /\ installed_via' = installed_via
             /\ flow_table' = flow_table
       /\ (regime = "FailStatic" /\ regime' = "FailStatic") =>
             /\ installed_via' = installed_via
             /\ flow_table' = flow_table]_vars

\* The number of times a method stands in the calls of a handler run
CallCount(m) == Cardinality({k \in 1..Len(calls') : calls'[k] = m})

\* C20: a run of _state_change_handler (a step that sends no flow) that adds
\* a spine to or removes one from alive_spines calls _recompute_routes exactly
\* once, and the regime it logs is that of the updated set; a run that leaves
\* alive_spines as it was calls nothing.
C20_RecomputeOnEveryChangeOnly ==
    [][flow_table' = flow_table =>
          IF alive_spines' # alive_spines
          THEN /\ CallCount("_recompute_routes") = 1
               /\ calls'[1] = "_recompute_routes"
               /\ regime' = Regime(alive_spines', threshold)
               /\ (regime' = "FailClosed" => installed_via' = <<alive_spines'>>)
          ELSE calls' = <<>>]_vars

\* sp2 has come back after both spines were lost: the recomputation of that
\* run saw one spine alive; an event of a leaf then called nothing.
C20_Witness_ReconnectRecomputed ==
    /\ alive_spines = {"sp2"}
    /\ ofp_state[1] = "DEAD_DISPATCHER"
    /\ ofp_state[2] = "MAIN_DISPATCHER"
    /\ ofp_state[3] = "DEAD_DISPATCHER"
    /\ regime = "FailStatic"
    /\ calls = <<>>

\* The to-state of the transition a switch's monitor reported last, 'healthy'
\* (the value __init__ assigns) if it has reported none
LastReported(s) == IF health_log[s] = <<>> THEN "healthy" ELSE health_log[s][1].to

\* C21: for each switch, every transition its monitor reports has a from-state
\* different from its to-state, and its from-state is the to-state of the
\* transition reported before it (healthy for the first report).
C21_ReportsChain ==
    [][\A s \in Switches :
          health_log'[s] # health_log[s] =>
              /\ health_log'[s][1].from # health_log'[s][1].to
              /\ health_log'[s][1].from = LastReported(s)]_vars

\* A monitor has reported healthy -> unknown and then unknown -> healthy.
C21_Witness_SecondReport ==
    \E s \in Switches :
        /\ health_log[s] = <<[from |-> "unknown", to |-> "healthy"]>>
        /\ last_probe[s] = "ok"
        /\ mon_pc[s] = "ready"

C23_Original_StopEndsMonitors ==
    (shell = "stopped") ~> (\A s \in Switches : mon_pc[s] = "dead")

\* C24: failbgp <router...> stops the BGP daemon of each router it names and
\* of no other router.
C24_Original_OnlyNamedRoutersStopped ==
    [][fail_log' # fail_log =>
          \A r \in MonRouters :
              bgpd_up'[r] = (bgpd_up[r] /\ r \notin fail_log'[1])]_vars

\* C25: failsdn followed by recoversdn is a round trip on controller
\* attachment; its closing half: a recoversdn that sets the controller of a
\* switch failsdn had detached leaves every switch of the network with its
\* controller set.
C25_Original_RecoverRestoresAll ==
    [][(\E s \in Switches : ~controller_set[s] /\ controller_set'[s])
          => \A s \in Switches : controller_set'[s]]_vars

\* C26: recovery only reads the snapshot store: every step of
\* recover_bgp_after_link_flap, from its entry to its return, leaves
\* last_dynamic_routes as it was.
C26_RecoveryReadsOnly ==
    [][(cli_pc.op = "recover" \/ cli_pc'.op = "recover")
          => last_dynamic_routes' = last_dynamic_routes]_vars

\* A recovery has returned: it installed bgp2's snapshot of two records, and
\* the store still holds a snapshot for both routers.
C26_Witness_RecoveredFromSnapshot ==
    /\ cli_pc = Idle
    /\ Len(Get(last_dynamic_routes, "bgp2")) = 2
    /\ FallbackRoutes(kroutes["bgp2"]) = SnapshotRoutes("bgp2")
    /\ last_dynamic_routes["bgp1"] # <<>>

\* C27: alive_spines is a subset of {sp1, sp2}, and spN is a member exactly
\* when the most recent state-change event for datapath N was MAIN_DISPATCHER
\* or no event for datapath N has occurred yet.
C27_AliveFollowsLastEvent ==
    /\ alive_spines \subseteq {"sp1", "sp2"}
    /\ "sp1" \in alive_spines <=> ofp_state[1] \in {"MAIN_DISPATCHER", "none"}
    /\ "sp2" \in alive_spines <=> ofp_state[2] \in {"MAIN_DISPATCHER", "none"}

\* sp1 is lost; sp2 was lost and has reconnected.
C27_Witness_LostAndReconnected ==
    /\ alive_spines = {"sp2"}
    /\ ofp_state[1] = "DEAD_DISPATCHER"
    /\ ofp_state[2] = "MAIN_DISPATCHER"
    /\ calls = <<"_recompute_routes">>
    /\ installed_via # <<>>

\* Whether a step carries a state-change event that alters a spine's
\* liveness: the state of the last event of datapath 1 or 2 changes, other
\* than by the first MAIN_DISPATCHER of a spine that was alive from the start.
SpineLivenessEvent ==
    \E d \in {1, 2} :
        /\ ofp_state'[d] # ofp_state[d]
        /\ ~(ofp_state[d] = "none" /\ ofp_state'[d] = "MAIN_DISPATCHER")

\* C28: a state-change event for a datapath that is no spine, or one that
\* repeats a spine's current liveness, leaves alive_spines unchanged and
\* triggers neither a recomputation nor a flow installation.
C28_OtherEventsChangeNothing ==
    [][(flow_table' = flow_table /\ ~SpineLivenessEvent) =>
          /\ alive_spines' = alive_spines
          /\ calls' = <<>>
          /\ regime' = regime
          /\ installed_via' = installed_via]_vars

\* sp1 has been lost and the regime recomputed; the last event handled since
\* (of the leaf datapath, or one repeating a spine's state) recomputed nothing.
C28_Witness_NoopAfterRecompute ==
    /\ calls = <<>>
    /\ regime = "FailStatic"
    /\ alive_spines = {"sp2"}
    /\ ofp_state[1] = "DEAD_DISPATCHER"
    /\ ofp_state[3] = "DEAD_DISPATCHER"

C30_Original_ShellNeverShared ==
    [][\A s \in Switches :
          controller_set'[s] # controller_set[s] => mon_pc[s] # "pinging"]_vars
====
